---- MODULE Spec2Model ----
(***************************************************************************)
(* Declaration surface of pydantic/decorators.py: the six entry points     *)
(* validator, field_validator, root_validator, field_serializer,           *)
(* model_serializer and model_validator, each a call that checks its       *)
(* options and returns a decorator `dec`, and the decorator applied to a   *)
(* function, which produces a PydanticDecoratorMarker or raises.           *)
(***************************************************************************)
EXTENDS Integers, Sequences, FiniteSets, TLC

VARIABLES pc, call, closure, f, err, warnings, marker, steps, prev

vars == <<pc, call, closure, f, err, warnings, marker, steps, prev>>

(***************************************************************************)
(* Bounds of the model.                                                    *)
(***************************************************************************)
\* longest list of positional targets an author passes
MaxFields == 2

(***************************************************************************)
(* Python values.  Objects are records tagged with their type; option      *)
(* values are written as their Python literal.                             *)
(***************************************************************************)
None == [type |-> "NoneType"]

\* positional arguments an author may pass as targets
Str(s) == [type |-> "str", value |-> s]
Targets ==
    { Str("a"), Str("b"), Str(""),
      [type |-> "function", value |-> "some_function"],
      [type |-> "int", value |-> "1"] }

\* isinstance(x, FunctionType)
IsFunctionType(x) == x.type = "function"
\* isinstance(x, str)
IsStr(x) == x.type = "str"

\* `x is True`, `x is False`: identity with the bool singletons
IsTrue(x) == x = "True"
IsFalse(x) == x = "False"

Bools == {"True", "False"}
\* what a caller can pass where a bool is annotated
BoolArgs == {"True", "False", "1"}
CheckFieldsArgs == {"None", "True"}
\* the modes each entry point annotates (the Literal[...] of its signature)
FieldValidatorModes == {"before", "after", "wrap", "plain"}
ModelValidatorModes == {"wrap", "before", "after"}
SerializerModes == {"plain", "wrap"}
LegacyModes == {"before", "after"}
\* what a caller can pass as mode: Literal is not enforced at run time
ModeArgs == FieldValidatorModes \cup {"bogus"}
SerializerModeArgs == SerializerModes \cup {"bogus"}
ModelValidatorModeArgs == ModelValidatorModes \cup {"plain"}
WhenUsedArgs == {"always", "json"}
JsonReturnTypeArgs == {"None", "str"}

\* the functions an author decorates: how the object is wrapped and the
\* name of the first parameter of the underlying function
Wrappers == {"function", "classmethod", "staticmethod"}
FirstParams == {"self", "cls", "value"}
Functions == [wrapper : Wrappers, first : FirstParams]

\* tuples of at most MaxFields positional targets
RECURSIVE TuplesUpTo(_)
TuplesUpTo(n) ==
    IF n = 0 THEN { <<>> }
    ELSE LET shorter == TuplesUpTo(n - 1)
         IN shorter \cup { Append(t, x) : t \in {s \in shorter : Len(s) = n - 1}, x \in Targets }

\* *fields of field_serializer
Positionals == TuplesUpTo(MaxFields)
\* __field, *fields of validator and field_validator: __field is required
Positionals1 == { t \in Positionals : Len(t) >= 1 }

(***************************************************************************)
(* Errors and warnings.                                                    *)
(***************************************************************************)
PydanticUserError(message, code) ==
    [exc |-> "PydanticUserError", code |-> code, message |-> message]
TypeError(message) ==
    [exc |-> "TypeError", code |-> "", message |-> message]
DeprecationWarning(message) ==
    [category |-> "DeprecationWarning", message |-> message]

ALLOW_REUSE_WARNING_MESSAGE ==
    "allow_reuse is deprecated and will be ignored; it should no longer be necessary"
V1_VALIDATOR_WARNING_MESSAGE ==
    "Pydantic V1 style @validator validators are deprecated."

\* functools.partial(func, **kwargs): the factory and the parameters bound
\* into it, as a set of <<name, value>> pairs
partial(func, kwargs) == [func |-> func, kwargs |-> kwargs]

(***************************************************************************)
(* Helpers of pydantic._internal._decorators.                              *)
(***************************************************************************)
\* the first parameter of the underlying function (class/static method
\* wrappers unwrapped) is the instance receiver
is_instance_method_from_sig(fn) == fn.first = "self"

\* a function that is not already a class/static method and does not look
\* like an instance method is promoted to a classmethod
ensure_classmethod_based_on_signature(fn) ==
    IF fn.wrapper = "function" /\ ~is_instance_method_from_sig(fn)
    THEN [fn EXCEPT !.wrapper = "classmethod"]
    ELSE fn

\* the object attached to the class namespace
PydanticDecoratorMarker(wrapped, decorator_info, shim) ==
    [wrapped |-> wrapped, decorator_info |-> decorator_info, shim |-> shim]

\* result of an entry point call, and of a decorator applied to a function
Raised(ws, e) ==
    [warnings |-> ws, err |-> e, closure |-> None, marker |-> None, steps |-> << >>]
Returned(ws, c) ==
    [warnings |-> ws, err |-> None, closure |-> c, marker |-> None, steps |-> << >>]
DecRaised(ss, e) == [err |-> e, marker |-> None, steps |-> ss]
DecReturned(ss, m) == [err |-> None, marker |-> m, steps |-> ss]

\* all(isinstance(field, str) for field in fields)
AllStr(fields) == \A i \in 1..Len(fields) : IsStr(fields[i])

(***************************************************************************)
(* validator                                                               *)
(***************************************************************************)
\* validator warning about allow_reuse only once the targets passed the checks
validator_ReuseWarnsLate(field1, rest, pre, each_item, always, check_fields, allow_reuse) ==
    LET reuse == IF IsTrue(allow_reuse)
                 THEN << DeprecationWarning(ALLOW_REUSE_WARNING_MESSAGE) >>
                 ELSE << >>
        fields == << field1 >> \o rest
    IN  IF IsFunctionType(fields[1])
        THEN Raised(<< >>, PydanticUserError(
                 "validators should be used with fields and keyword arguments, not bare. ",
                 "validator-no-fields"))
        ELSE IF ~AllStr(fields)
        THEN Raised(<< >>, PydanticUserError(
                 "validator fields should be passed as separate string args. ",
                 "validator-invalid-fields"))
        ELSE Returned(
                 reuse \o << DeprecationWarning(V1_VALIDATOR_WARNING_MESSAGE) >>,
                 [fields |-> fields,
                  mode |-> IF IsTrue(pre) THEN "before" ELSE "after",
                  each_item |-> each_item,
                  always |-> always,
                  check_fields |-> check_fields])

validator(field1, rest, pre, each_item, always, check_fields, allow_reuse) ==
    LET reuse == IF IsTrue(allow_reuse)
                 THEN << DeprecationWarning(ALLOW_REUSE_WARNING_MESSAGE) >>
                 ELSE << >>
        fields == << field1 >> \o rest
    IN  IF IsFunctionType(fields[1])
        THEN Raised(reuse, PydanticUserError(
                 "validators should be used with fields and keyword arguments, not bare. ",
                 "validator-no-fields"))
        ELSE IF ~AllStr(fields)
        THEN Raised(reuse, PydanticUserError(
                 "validator fields should be passed as separate string args. ",
                 "validator-invalid-fields"))
        ELSE Returned(
                 reuse \o << DeprecationWarning(V1_VALIDATOR_WARNING_MESSAGE) >>,
                 [fields |-> fields,
                  mode |-> IF IsTrue(pre) THEN "before" ELSE "after",
                  each_item |-> each_item,
                  always |-> always,
                  check_fields |-> check_fields])

validator_dec(c, fn) ==
    IF is_instance_method_from_sig(fn)
    THEN DecRaised(<< "is_instance_method_from_sig" >>, PydanticUserError(
             "@validator cannot be applied to instance methods",
             "validator-instance-method"))
    ELSE DecReturned(
             << "is_instance_method_from_sig",
                "ensure_classmethod_based_on_signature",
                "PydanticDecoratorMarker" >>,
             PydanticDecoratorMarker(
                 ensure_classmethod_based_on_signature(fn),
                 [info |-> "ValidatorDecoratorInfo",
                  fields |-> c.fields,
                  mode |-> c.mode,
                  each_item |-> c.each_item,
                  always |-> c.always,
                  check_fields |-> c.check_fields],
                 partial("make_generic_v1_field_validator", {})))

(***************************************************************************)
(* field_validator                                                         *)
(***************************************************************************)
\* field_validator with the two target checks in the other order
field_validator_ChecksSwapped(field1, rest, mode, check_fields) ==
    LET fields == << field1 >> \o rest
    IN  IF ~AllStr(fields)
        THEN Raised(<< >>, PydanticUserError(
                 "field_validator fields should be passed as separate string args. ",
                 "validator-invalid-fields"))
        ELSE Returned(<< >>,
                 [fields |-> fields, mode |-> mode, check_fields |-> check_fields])

field_validator(field1, rest, mode, check_fields) ==
    LET fields == << field1 >> \o rest
    IN  IF IsFunctionType(fields[1])
        THEN Raised(<< >>, PydanticUserError(
                 "field_validators should be used with fields and keyword arguments, not bare. ",
                 "validator-no-fields"))
        ELSE IF ~AllStr(fields)
        THEN Raised(<< >>, PydanticUserError(
                 "field_validator fields should be passed as separate string args. ",
                 "validator-invalid-fields"))
        ELSE Returned(<< >>,
                 [fields |-> fields, mode |-> mode, check_fields |-> check_fields])

field_validator_dec(c, fn) ==
    IF is_instance_method_from_sig(fn)
    THEN DecRaised(<< "is_instance_method_from_sig" >>, PydanticUserError(
             "@field_validator cannot be applied to instance methods",
             "validator-instance-method"))
    ELSE DecReturned(
             << "is_instance_method_from_sig",
                "ensure_classmethod_based_on_signature",
                "PydanticDecoratorMarker" >>,
             PydanticDecoratorMarker(
                 ensure_classmethod_based_on_signature(fn),
                 [info |-> "FieldValidatorDecoratorInfo",
                  fields |-> c.fields,
                  mode |-> c.mode,
                  check_fields |-> c.check_fields],
                 partial("make_generic_validator", { << "mode", c.mode >> })))

(***************************************************************************)
(* root_validator                                                          *)
(***************************************************************************)
\* root_validator with the gate testing skip_on_failure alone
root_validator_GateIgnoresPre(pre, skip_on_failure, allow_reuse) ==
    LET reuse == IF IsTrue(allow_reuse)
                 THEN << DeprecationWarning(ALLOW_REUSE_WARNING_MESSAGE) >>
                 ELSE << >>
        mode == IF IsTrue(pre) THEN "before" ELSE "after"
    IN  IF ~IsTrue(skip_on_failure)
        THEN Raised(reuse, PydanticUserError(
                 "If you use @root_validator with pre=False (the default) you MUST specify skip_on_failure=True.",
                 "root-validator-pre-skip"))
        ELSE Returned(reuse,
                 [mode |-> mode,
                  wrap |-> partial("make_v1_generic_root_validator", { << "pre", pre >> })])

\* root_validator with the gate left out
root_validator_NoGate(pre, skip_on_failure, allow_reuse) ==
    Returned(
        IF IsTrue(allow_reuse)
        THEN << DeprecationWarning(ALLOW_REUSE_WARNING_MESSAGE) >>
        ELSE << >>,
        [mode |-> IF IsTrue(pre) THEN "before" ELSE "after",
         wrap |-> partial("make_v1_generic_root_validator", { << "pre", pre >> })])

\* root_validator binding skip_on_failure where pre belongs
root_validator_BindsSkip(pre, skip_on_failure, allow_reuse) ==
    LET reuse == IF IsTrue(allow_reuse)
                 THEN << DeprecationWarning(ALLOW_REUSE_WARNING_MESSAGE) >>
                 ELSE << >>
        mode == IF IsTrue(pre) THEN "before" ELSE "after"
    IN  IF IsFalse(pre) /\ ~IsTrue(skip_on_failure)
        THEN Raised(reuse, PydanticUserError(
                 "If you use @root_validator with pre=False (the default) you MUST specify skip_on_failure=True.",
                 "root-validator-pre-skip"))
        ELSE Returned(reuse,
                 [mode |-> mode,
                  wrap |-> partial("make_v1_generic_root_validator",
                                   { << "pre", skip_on_failure >> })])

root_validator(pre, skip_on_failure, allow_reuse) ==
    LET reuse == IF IsTrue(allow_reuse)
                 THEN << DeprecationWarning(ALLOW_REUSE_WARNING_MESSAGE) >>
                 ELSE << >>
        mode == IF IsTrue(pre) THEN "before" ELSE "after"
    IN  IF IsFalse(pre) /\ ~IsTrue(skip_on_failure)
        THEN Raised(reuse, PydanticUserError(
                 "If you use @root_validator with pre=False (the default) you MUST specify skip_on_failure=True.",
                 "root-validator-pre-skip"))
        ELSE Returned(reuse,
                 [mode |-> mode,
                  wrap |-> partial("make_v1_generic_root_validator", { << "pre", pre >> })])

root_validator_dec(c, fn) ==
    IF is_instance_method_from_sig(fn)
    THEN DecRaised(<< "is_instance_method_from_sig" >>,
             TypeError("@root_validator cannot be applied to instance methods"))
    ELSE DecReturned(
             << "is_instance_method_from_sig",
                "ensure_classmethod_based_on_signature",
                "PydanticDecoratorMarker" >>,
             PydanticDecoratorMarker(
                 ensure_classmethod_based_on_signature(fn),
                 [info |-> "RootValidatorDecoratorInfo", mode |-> c.mode],
                 c.wrap))

(***************************************************************************)
(* field_serializer                                                        *)
(***************************************************************************)
field_serializer(fields, mode, json_return_type, when_used, check_fields) ==
    Returned(<< >>,
        [fields |-> fields,
         mode |-> mode,
         json_return_type |-> json_return_type,
         when_used |-> when_used,
         check_fields |-> check_fields])

\* field_serializer.dec taking the type from the wrapper of the function too
field_serializer_dec_TypeFromWrapper(c, fn) ==
    LET type_ == IF fn.wrapper = "function" /\ is_instance_method_from_sig(fn)
                 THEN "field" ELSE "general"
    IN  DecReturned(
            << "is_instance_method_from_sig", "PydanticDecoratorMarker" >>,
            PydanticDecoratorMarker(
                fn,
                [info |-> "FieldSerializerDecoratorInfo",
                 fields |-> c.fields,
                 mode |-> c.mode,
                 type |-> type_,
                 json_return_type |-> c.json_return_type,
                 when_used |-> c.when_used,
                 check_fields |-> c.check_fields],
                partial("make_generic_serializer",
                        { << "mode", c.mode >>, << "type", type_ >> })))

field_serializer_dec(c, fn) ==
    LET type_ == IF is_instance_method_from_sig(fn) THEN "field" ELSE "general"
    IN  DecReturned(
            << "is_instance_method_from_sig", "PydanticDecoratorMarker" >>,
            PydanticDecoratorMarker(
                fn,
                [info |-> "FieldSerializerDecoratorInfo",
                 fields |-> c.fields,
                 mode |-> c.mode,
                 type |-> type_,
                 json_return_type |-> c.json_return_type,
                 when_used |-> c.when_used,
                 check_fields |-> c.check_fields],
                partial("make_generic_serializer",
                        { << "mode", c.mode >>, << "type", type_ >> })))

(***************************************************************************)
(* model_serializer                                                        *)
(***************************************************************************)
\* model_serializer.dec without the isinstance test for class/static methods
model_serializer_dec_NoWrapperTest(c, fn) ==
    IF ~is_instance_method_from_sig(fn)
    THEN DecRaised(<< "is_instance_method_from_sig" >>, PydanticUserError(
             "@model_serializer must be applied to instance methods",
             "model-serializer-instance-method"))
    ELSE DecReturned(
             << "is_instance_method_from_sig", "PydanticDecoratorMarker" >>,
             PydanticDecoratorMarker(
                 fn,
                 [info |-> "ModelSerializerDecoratorInfo",
                  mode |-> c.mode,
                  json_return_type |-> c.json_return_type],
                 partial("make_generic_model_serializer", { << "mode", c.mode >> })))

model_serializer_dec(c, fn) ==
    IF fn.wrapper \in {"staticmethod", "classmethod"}
    THEN DecRaised(<< >>, PydanticUserError(
             "@model_serializer must be applied to instance methods",
             "model-serializer-instance-method"))
    ELSE IF ~is_instance_method_from_sig(fn)
    THEN DecRaised(<< "is_instance_method_from_sig" >>, PydanticUserError(
             "@model_serializer must be applied to instance methods",
             "model-serializer-instance-method"))
    ELSE DecReturned(
             << "is_instance_method_from_sig", "PydanticDecoratorMarker" >>,
             PydanticDecoratorMarker(
                 fn,
                 [info |-> "ModelSerializerDecoratorInfo",
                  mode |-> c.mode,
                  json_return_type |-> c.json_return_type],
                 partial("make_generic_model_serializer", { << "mode", c.mode >> })))

\* fn0 is the positional __f: None for @model_serializer(...), the function
\* for a bare @model_serializer
model_serializer(fn0, mode, json_return_type) ==
    LET c == [mode |-> mode, json_return_type |-> json_return_type]
    IN  IF fn0 = None
        THEN Returned(<< >>, c)
        ELSE LET d == model_serializer_dec(c, fn0)
             IN  [warnings |-> << >>, err |-> d.err, closure |-> None,
                  marker |-> d.marker, steps |-> d.steps]

(***************************************************************************)
(* model_validator                                                         *)
(***************************************************************************)
model_validator(mode) == Returned(<< >>, [mode |-> mode])

\* model_validator.dec binding the binding of the function into the shim,
\* the way field_serializer.dec does
model_validator_dec_ShimByBinding(c, fn) ==
    LET type_ == IF is_instance_method_from_sig(fn) THEN "field" ELSE "general"
    IN  DecReturned(
            << "is_instance_method_from_sig", "PydanticDecoratorMarker" >>,
            PydanticDecoratorMarker(
                fn,
                [info |-> "ModelValidatorDecoratorInfo", mode |-> c.mode],
                partial("make_generic_validator",
                        { << "mode", c.mode >>, << "type", type_ >> })))

model_validator_dec(c, fn) ==
    DecReturned(
        << "PydanticDecoratorMarker" >>,
        PydanticDecoratorMarker(
            fn,
            [info |-> "ModelValidatorDecoratorInfo", mode |-> c.mode],
            partial("make_generic_validator", { << "mode", c.mode >> })))

(***************************************************************************)
(* The state machine: an author makes declarations one after another.      *)
(* A declaration is a call of an entry point (pc idle -> returned, or      *)
(* raised) and then the returned decorator applied to a function           *)
(* (returned -> marked, or raised).  prev remembers the finished           *)
(* declaration when the author declares the same thing again.              *)
(***************************************************************************)
Init ==
    /\ pc = "idle"
    /\ call = None
    /\ closure = None
    /\ f = None
    /\ err = None
    /\ warnings = << >>
    /\ marker = None
    /\ steps = << >>
    /\ prev = None

HasAllowReuse(entry) == entry \in {"validator", "root_validator"}

\* c states again the call p, up to the allow_reuse flag and the function
\* handed to a bare model_serializer
Repeats(c, p) ==
    /\ c.entry = p.entry
    /\ IF c.entry = "model_serializer"
       THEN Len(c.args) = Len(p.args)
       ELSE c.args = p.args
    /\ IF HasAllowReuse(c.entry)
       THEN [c.kw EXCEPT !.allow_reuse = p.kw.allow_reuse] = p.kw
       ELSE c.kw = p.kw

Permitted(c) == IF prev = None THEN TRUE ELSE Repeats(c, prev.call)

\* what the author may pass for the positionals and for option name of
\* entry: anything of S in a fresh declaration, the same as before in a
\* declaration stated again
ArgsFor(entry, S) ==
    IF prev = None THEN S
    ELSE IF prev.call.entry = entry THEN {prev.call.args} ELSE {}
OptFor(entry, name, S) ==
    IF prev = None THEN S
    ELSE IF prev.call.entry = entry THEN {prev.call.kw[name]} ELSE {}

\* the call c of an entry point, with result r
Enter(c, r) ==
    /\ pc = "idle"
    /\ Permitted(c)
    /\ call' = c
    /\ warnings' = r.warnings
    /\ err' = r.err
    /\ closure' = r.closure
    /\ marker' = r.marker
    /\ steps' = r.steps
    /\ f' = IF c.entry = "model_serializer" /\ Len(c.args) > 0 THEN c.args[1] ELSE None
    /\ pc' = IF r.err # None THEN "raised"
             ELSE IF r.marker # None THEN "marked" ELSE "returned"
    /\ UNCHANGED prev

\* the decorator of entry has been returned and not yet applied
Holds(entry) == pc = "returned" /\ call.entry = entry

\* the returned decorator applied to fn, with result d
Apply(fn, d) ==
    /\ f' = fn
    /\ err' = d.err
    /\ marker' = d.marker
    /\ steps' = d.steps
    /\ pc' = IF d.err # None THEN "raised" ELSE "marked"
    /\ UNCHANGED << call, closure, warnings, prev >>

Call_validator ==
    \E args \in ArgsFor("validator", Positionals1),
       pre \in OptFor("validator", "pre", Bools),
       each_item \in OptFor("validator", "each_item", Bools),
       always \in OptFor("validator", "always", Bools),
       check_fields \in OptFor("validator", "check_fields", CheckFieldsArgs),
       allow_reuse \in Bools :
        Enter([entry |-> "validator", args |-> args,
               kw |-> [pre |-> pre, each_item |-> each_item, always |-> always,
                       check_fields |-> check_fields, allow_reuse |-> allow_reuse]],
              validator(Head(args), Tail(args), pre, each_item, always,
                        check_fields, allow_reuse))

Apply_validator_dec ==
    /\ Holds("validator")
    /\ \E fn \in Functions : Apply(fn, validator_dec(closure, fn))

Call_field_validator ==
    \E args \in ArgsFor("field_validator", Positionals1),
       mode \in OptFor("field_validator", "mode", ModeArgs),
       check_fields \in OptFor("field_validator", "check_fields", CheckFieldsArgs) :
        Enter([entry |-> "field_validator", args |-> args,
               kw |-> [mode |-> mode, check_fields |-> check_fields]],
              field_validator(Head(args), Tail(args), mode, check_fields))

Apply_field_validator_dec ==
    /\ Holds("field_validator")
    /\ \E fn \in Functions : Apply(fn, field_validator_dec(closure, fn))

Call_root_validator ==
    \E pre \in OptFor("root_validator", "pre", BoolArgs),
       skip_on_failure \in OptFor("root_validator", "skip_on_failure", BoolArgs),
       allow_reuse \in Bools :
        Enter([entry |-> "root_validator", args |-> << >>,
               kw |-> [pre |-> pre, skip_on_failure |-> skip_on_failure,
                       allow_reuse |-> allow_reuse]],
              root_validator(pre, skip_on_failure, allow_reuse))

Apply_root_validator_dec ==
    /\ Holds("root_validator")
    /\ \E fn \in Functions : Apply(fn, root_validator_dec(closure, fn))

Call_field_serializer ==
    \E args \in ArgsFor("field_serializer", Positionals),
       mode \in OptFor("field_serializer", "mode", SerializerModeArgs),
       json_return_type \in OptFor("field_serializer", "json_return_type", JsonReturnTypeArgs),
       when_used \in OptFor("field_serializer", "when_used", WhenUsedArgs),
       check_fields \in OptFor("field_serializer", "check_fields", CheckFieldsArgs) :
        Enter([entry |-> "field_serializer", args |-> args,
               kw |-> [mode |-> mode, json_return_type |-> json_return_type,
                       when_used |-> when_used, check_fields |-> check_fields]],
              field_serializer(args, mode, json_return_type, when_used, check_fields))

Apply_field_serializer_dec ==
    /\ Holds("field_serializer")
    /\ \E fn \in Functions : Apply(fn, field_serializer_dec(closure, fn))

Call_model_serializer ==
    \E fn0 \in Functions \cup {None},
       mode \in OptFor("model_serializer", "mode", SerializerModeArgs),
       json_return_type \in OptFor("model_serializer", "json_return_type", JsonReturnTypeArgs) :
        Enter([entry |-> "model_serializer",
               args |-> IF fn0 = None THEN << >> ELSE << fn0 >>,
               kw |-> [mode |-> mode, json_return_type |-> json_return_type]],
              model_serializer(fn0, mode, json_return_type))

Apply_model_serializer_dec ==
    /\ Holds("model_serializer")
    /\ \E fn \in Functions : Apply(fn, model_serializer_dec(closure, fn))

Call_model_validator ==
    \E mode \in OptFor("model_validator", "mode", ModelValidatorModeArgs) :
        Enter([entry |-> "model_validator", args |-> << >>, kw |-> [mode |-> mode]],
              model_validator(mode))

Apply_model_validator_dec ==
    /\ Holds("model_validator")
    /\ \E fn \in Functions : Apply(fn, model_validator_dec(closure, fn))

Forget ==
    /\ call' = None
    /\ closure' = None
    /\ f' = None
    /\ err' = None
    /\ warnings' = << >>
    /\ marker' = None
    /\ steps' = << >>
    /\ pc' = "idle"

\* the author goes on to an unrelated declaration
NextDeclaration ==
    /\ pc \in {"marked", "raised"}
    /\ Forget
    /\ prev' = None

\* the author states the finished declaration once more
DeclareAgain ==
    /\ pc \in {"marked", "raised"}
    /\ Forget
    /\ prev' = [call |-> call, f |-> f, err |-> err,
                warnings |-> warnings, marker |-> marker]

Next ==
    \/ Call_validator
    \/ Apply_validator_dec
    \/ Call_field_validator
    \/ Apply_field_validator_dec
    \/ Call_root_validator
    \/ Apply_root_validator_dec
    \/ Call_field_serializer
    \/ Apply_field_serializer_dec
    \/ Call_model_serializer
    \/ Apply_model_serializer_dec
    \/ Call_model_validator
    \/ Apply_model_validator_dec
    \/ NextDeclaration
    \/ DeclareAgain

Spec == Init /\ [][Next]_vars

(***************************************************************************)
(* Properties.                                                             *)
(***************************************************************************)
\* the entry point of the current declaration ("" before the call)
Entry == IF call = None THEN "" ELSE call.entry
Called(entry) == Entry = entry
\* the call returned a decorator
ReturnedDecorator == closure # None
ErrCode == IF err = None THEN "" ELSE err.code
ErrMessage == IF err = None THEN "" ELSE err.message

C2_GateBeforeClassification ==
    Called("root_validator")
    => /\ ErrCode = "root-validator-pre-skip"
          => (f = None /\ steps = << >> /\ marker = None /\ ~ReturnedDecorator)
       /\ (f # None \/ ReturnedDecorator)
          => ~(IsFalse(call.kw.pre) /\ ~IsTrue(call.kw.skip_on_failure))

C2_Witness ==
    /\ Called("root_validator")
    /\ pc = "raised"
    /\ ErrCode = "root-validator-pre-skip"
    /\ IsFalse(call.kw.pre)
    /\ f = None

\* C3: validator and field_validator called with a function as first
\* positional fail with code validator-no-fields; otherwise, with a target
\* that is not a string, they fail with code validator-invalid-fields;
\* with only strings they return a decorator.
C3_TargetChecks ==
    (Called("validator") \/ Called("field_validator"))
    => IF IsFunctionType(call.args[1])
       THEN pc = "raised" /\ ErrCode = "validator-no-fields" /\ ~ReturnedDecorator
       ELSE IF \E i \in 1..Len(call.args) : ~IsStr(call.args[i])
       THEN pc = "raised" /\ ErrCode = "validator-invalid-fields" /\ ~ReturnedDecorator
       ELSE ReturnedDecorator /\ ErrCode \notin {"validator-no-fields", "validator-invalid-fields"}

\* a call where both checks would fire: the bare-decorator error wins
C3_Witness ==
    /\ Called("field_validator")
    /\ Len(call.args) = 2
    /\ IsFunctionType(call.args[1])
    /\ call.args[2].type = "int"
    /\ ErrCode = "validator-no-fields"

FieldLevelEntries == {"validator", "field_validator", "field_serializer"}
\* the decorated function looks instance-bound: its first parameter is self
LooksInstanceBound(fn) == fn.first = "self"

\* C4: every Marker of a field-level entry point carries at least one target
\* name and only non-empty strings, and a declaration with no target or
\* with a target that is not a string yields no Marker.
C4_MarkerTargetsWellFormed ==
    Entry \in FieldLevelEntries
    => /\ marker # None
          => LET fs == marker.decorator_info.fields
             IN  /\ Len(fs) >= 1
                 /\ \A i \in 1..Len(fs) : IsStr(fs[i]) /\ fs[i].value # ""
       /\ (Len(call.args) = 0 \/ \E i \in 1..Len(call.args) : ~IsStr(call.args[i]))
          => marker = None

\* C5: validator, field_validator and root_validator applied to a function
\* that looks instance-bound raise the "cannot be applied to instance
\* methods" error and produce no Marker; model_serializer applied to a
\* classmethod, a staticmethod or a function without instance receiver
\* raises the "must be applied to instance methods" error and produces no
\* Marker; every other decoration by these four produces a Marker.
C5_BindingDirection ==
    /\ (Entry \in {"validator", "field_validator", "root_validator"} /\ f # None)
       => IF LooksInstanceBound(f)
          THEN /\ pc = "raised"
               /\ marker = None
               /\ ErrMessage \in
                      {"@validator cannot be applied to instance methods",
                       "@field_validator cannot be applied to instance methods",
                       "@root_validator cannot be applied to instance methods"}
          ELSE pc = "marked" /\ marker # None /\ err = None
    /\ (Entry = "model_serializer" /\ f # None)
       => IF f.wrapper \in {"classmethod", "staticmethod"} \/ ~LooksInstanceBound(f)
          THEN /\ pc = "raised"
               /\ marker = None
               /\ ErrMessage = "@model_serializer must be applied to instance methods"
          ELSE pc = "marked" /\ marker # None /\ err = None

\* a classmethod whose first parameter is self, handed to model_serializer
C5_Witness ==
    /\ Called("model_serializer")
    /\ f # None
    /\ f.wrapper = "classmethod"
    /\ LooksInstanceBound(f)
    /\ pc = "raised"
    /\ ErrCode = "model-serializer-instance-method"

\* C6: model_validator produces no Marker for a wrongly bound function:
\* mode after needs an instance-bound function, modes before and wrap a
\* function that is not instance-bound.
C6_ModelValidatorAttachment ==
    (Called("model_validator") /\ marker # None)
    => /\ call.kw.mode = "after" => LooksInstanceBound(f)
       /\ call.kw.mode \in {"before", "wrap"} => ~LooksInstanceBound(f)

\* the modes of the rule kind a Marker descriptor belongs to
ModesOf(info) ==
    CASE info = "FieldValidatorDecoratorInfo" -> FieldValidatorModes
      [] info = "ModelValidatorDecoratorInfo" -> ModelValidatorModes
      [] info = "FieldSerializerDecoratorInfo" -> SerializerModes
      [] info = "ModelSerializerDecoratorInfo" -> SerializerModes
      [] info = "ValidatorDecoratorInfo" -> LegacyModes
      [] info = "RootValidatorDecoratorInfo" -> LegacyModes

\* C7: the mode in the descriptor of every Marker is one of the modes of
\* its rule kind.
C7_ModeInEnumeration ==
    marker # None
    => marker.decorator_info.mode \in ModesOf(marker.decorator_info.info)

\* C8: every call of validator or root_validator with boolean options that
\* returns a decorator has emitted a deprecation warning; validator without pre resolves to
\* mode after; and the warning does not keep the Marker from being made.
C8_LegacyWarns ==
    (/\ Entry \in {"validator", "root_validator"}
     /\ ReturnedDecorator
     /\ call.kw.pre \in Bools
     /\ Called("root_validator") => call.kw.skip_on_failure \in Bools)
    => /\ \E i \in 1..Len(warnings) : warnings[i].category = "DeprecationWarning"
       /\ (Called("validator") /\ IsFalse(call.kw.pre)) => closure.mode = "after"
       /\ (f # None /\ ~LooksInstanceBound(f)) => marker # None

\* the current declaration is finished and states the previous one again
Finished == pc \in {"marked", "raised"}
Again == IF prev = None THEN FALSE ELSE Finished /\ Repeats(call, prev.call)

C10_DescriptorDeterministic ==
    /\ (/\ Again
        /\ call.kw = prev.call.kw
        /\ marker # None
        /\ prev.marker # None
        /\ LooksInstanceBound(f) = LooksInstanceBound(prev.f))
       => marker.decorator_info = prev.marker.decorator_info
    /\ (Entry \in FieldLevelEntries /\ marker # None)
       => marker.decorator_info.fields = call.args

\* field_serializer stated twice for the targets b, a and applied to two
\* different instance-bound functions
C10_Witness ==
    /\ Again
    /\ Called("field_serializer")
    /\ call.kw = prev.call.kw
    /\ call.args = << Str("b"), Str("a") >>
    /\ marker # None
    /\ prev.marker # None
    /\ f # prev.f
    /\ LooksInstanceBound(f)
    /\ LooksInstanceBound(prev.f)

\* the values bound to the parameter name of a shim
BoundValues(shim, name) == { p[2] : p \in { q \in shim.kwargs : q[1] = name } }

\* two Markers made by the same configured declaration
SameDeclarationTwice ==
    /\ Again
    /\ call.kw = prev.call.kw
    /\ marker # None
    /\ prev.marker # None

\* the call respects the annotations of its entry point: targets are
\* non-empty strings, at least one for a field-level entry point, and mode
\* is one of the annotated Literal values
WellTypedCall ==
    /\ \A i \in 1..Len(call.args) :
          Entry \in FieldLevelEntries => (IsStr(call.args[i]) /\ call.args[i].value # "")
    /\ Entry \in FieldLevelEntries => Len(call.args) >= 1
    /\ Entry = "field_validator" => call.kw.mode \in FieldValidatorModes
    /\ Entry = "model_validator" => call.kw.mode \in ModelValidatorModes
    /\ Entry \in {"field_serializer", "model_serializer"} => call.kw.mode \in SerializerModes

\* C11 as stated, for calls that respect the annotations: two functions
\* decorated by the same configured declaration get the same adapter
\* factory with the same bound parameters, whatever their binding.
C11_AdapterIgnoresFunction ==
    (SameDeclarationTwice /\ WellTypedCall) => marker.shim = prev.marker.shim

\* C11 as amended: the adapter factory and the bound mode are the same for
\* any two functions; the whole adapter is the same for every entry point
\* but field_serializer, whose adapter also binds type, field for a function
\* that looks instance-bound and general otherwise, so that it is the same
\* for two functions of the same binding.
C11_AdapterByKindModeAndBinding ==
    SameDeclarationTwice
    => /\ marker.shim.func = prev.marker.shim.func
       /\ BoundValues(marker.shim, "mode") = BoundValues(prev.marker.shim, "mode")
       /\ Entry # "field_serializer" => marker.shim = prev.marker.shim
       /\ Entry = "field_serializer"
          => /\ BoundValues(marker.shim, "type")
                  = { IF LooksInstanceBound(f) THEN "field" ELSE "general" }
             /\ LooksInstanceBound(f) = LooksInstanceBound(prev.f)
                => marker.shim = prev.marker.shim

\* field_serializer stated twice, applied to an instance-bound function and
\* to one that is not: the two adapters differ
C11_Witness ==
    /\ SameDeclarationTwice
    /\ Called("field_serializer")
    /\ LooksInstanceBound(prev.f)
    /\ ~LooksInstanceBound(f)
    /\ marker.shim # prev.marker.shim

\* C12: in every Marker the parameters bound into the adapter agree with
\* the descriptor: the bound mode is the mode of the descriptor
\* (field_validator, model_validator, field_serializer, model_serializer),
\* the bound type of field_serializer is the type of the descriptor, and
\* root_validator binds the pre it was given, which is True exactly when
\* the mode of the descriptor is before.
C12_AdapterAgreesWithDescriptor ==
    marker # None
    => LET info == marker.decorator_info
           shim == marker.shim
       IN  /\ info.info \in {"FieldValidatorDecoratorInfo", "ModelValidatorDecoratorInfo",
                              "FieldSerializerDecoratorInfo", "ModelSerializerDecoratorInfo"}
              => BoundValues(shim, "mode") = { info.mode }
           /\ info.info = "FieldSerializerDecoratorInfo"
              => BoundValues(shim, "type") = { info.type }
           /\ info.info = "RootValidatorDecoratorInfo"
              => /\ BoundValues(shim, "pre") = { call.kw.pre }
                 /\ IsTrue(call.kw.pre) <=> info.mode = "before"

\* root_validator(pre=True) without skip_on_failure, applied to a classmethod
C12_Witness ==
    /\ Called("root_validator")
    /\ marker # None
    /\ IsTrue(call.kw.pre)
    /\ IsFalse(call.kw.skip_on_failure)
    /\ marker.decorator_info.mode = "before"
    /\ BoundValues(marker.shim, "pre") = { "True" }

====
